---- MODULE Spec2Model ----
(***************************************************************************)
(* Task tracker: the Express handlers of server/src/index.ts on top of the *)
(* Database class of server/src/database.ts (one sqlite table, "tasks").   *)
(*                                                                         *)
(* A request is begun by its handler (validation, uuid and timestamp are   *)
(* taken synchronously), then each of its SQL statements runs atomically   *)
(* at some later point, interleaved with the statements of the other       *)
(* requests in flight.  The response of the request that completed last is *)
(* kept in resp.                                                           *)
(*                                                                         *)
(* Environment assumptions: uuidv4() never returns a value it returned     *)
(* before, and the wall clock read by new Date() does not go backwards (it *)
(* may stay the same between two reads: one millisecond of resolution).    *)
(*                                                                         *)
(* Five specifications:                                                    *)
(*   Spec        the server, its requests coming from any clients;         *)
(*   SpecFaults  the same where a statement may fail in the store and      *)
(*               uuidv4() may return a value again;                        *)
(*   SpecClient  the App component of the client as the only client, its   *)
(*               handlers called one at a time, statements may fail;       *)
(*   SpecOverlap the same where a handler may be called while others are   *)
(*               still waiting for their answers;                          *)
(*   SpecUI      the App driven through the components it renders:         *)
(*               TaskForm, TaskList and its TaskItems.                     *)
(***************************************************************************)
EXTENDS Integers, Sequences, FiniteSets, TLC

VARIABLES
  store,     \* the tasks table: id -> row
  clock,     \* what new Date() returns now, in milliseconds
  nextId,    \* the next value uuidv4() returns
  inflight,  \* per slot: the request whose statements sqlite has not all run yet
  resp,      \* the response sent last
  created,   \* ids of the rows ever inserted
  deleted,   \* ids of the rows ever deleted
  nreq,      \* requests received so far
  sqlerr,    \* the err sqlite passed to the callback of the statement run last
  tasks,     \* App: the tasks state, a list of Task
  loading,   \* App: the loading state
  error,     \* App: the error state, a message or null
  mount,     \* App: how far the loadTasks() of the mount effect has come
  form,      \* TaskForm: its title, description, priority and category states
  items,     \* per task shown, the states of its TaskItem
  event,     \* the event whose handler ran last
  ninput     \* input events (a change of a text field or select) so far

\* the state of the App component
cvars == <<tasks, loading, error, mount>>

\* the state of the components the App renders
uivars == <<form, items, event, ninput>>

\* the state of the server
svars == <<store, clock, nextId, inflight, resp, created, deleted, nreq, sqlerr>>

vars == <<store, clock, nextId, inflight, resp, created, deleted, nreq, sqlerr,
          tasks, loading, error, mount, form, items, event, ninput>>

-----------------------------------------------------------------------------
(* Bounds *)

\* ids uuidv4 can hand out in one run (so: creates that reach the store call)
MaxIds == 2
\* clock ticks (milliseconds elapsing) in one run
MaxTicks == 1
\* requests in flight at the same time
MaxInflight == 2
\* fields one request body carries
MaxBodyFields == 1
\* input events of the components in one run
MaxInputs == 2
\* requests received in one run
MaxRequests == 3

-----------------------------------------------------------------------------
(* Values *)

\* JSON null
Null == "null"
\* an id the server never generated (a request for an unknown task)
NoSuchId == 0
\* the first instant of the run, in milliseconds: the run crosses a carry
StartClock == 10 - MaxTicks

Slots == 1..MaxInflight

\* the Task.priority union of types.ts
Priority == {"low", "medium", "high"}

\* the fields updateTask looks at
UpdateFields == {"title", "description", "completed", "priority", "category"}
\* the fields createTask looks at
CreateFields == {"title", "description", "priority", "category"}
\* fields a body may carry that neither looks at
ExtraFields == {"id", "createdAt", "updatedAt", "owner"}

\* mutant: the instant rendered without zero padding
toISOString_Unpadded(t) == IF t < 10 THEN <<t>> ELSE <<t \div 10, t % 10>>

\* Date.prototype.toISOString: a fixed-width, zero-padded rendering, most
\* significant digit first (two decimal digits stand for the 24 characters)
toISOString(t) == <<t \div 10, t % 10>>

\* sqlite's comparison of two TEXT values (BINARY collation): lexicographic
RECURSIVE TextLess(_, _)
TextLess(a, b) ==
  IF b = <<>> THEN FALSE
  ELSE IF a = <<>> THEN TRUE
  ELSE IF Head(a) # Head(b) THEN Head(a) < Head(b)
  ELSE TextLess(Tail(a), Tail(b))

TextLeq(a, b) == a = b \/ TextLess(a, b)

\* the values a request body gives to a field (the titles of POST are listed
\* in CreateBodies)
FieldVals(f) ==
  CASE f = "description" -> {"d"}
    [] f = "completed" -> {TRUE, FALSE}
    [] f = "priority" -> {"low", "urgent"}
    [] f = "category" -> {"", "work"}
    [] f = "id" -> {NoSuchId}
    [] f = "createdAt" -> {toISOString(0)}
    [] f = "updatedAt" -> {toISOString(0)}
    [] f = "owner" -> {"eve"}
    [] f = "title" -> {Null, "", "b"}

\* every body (a JSON object) whose keys are exactly D
RECURSIVE BodiesOver(_)
BodiesOver(D) ==
  IF D = {} THEN {<<>>}
  ELSE LET d == CHOOSE x \in D : TRUE
       IN  {(d :> v) @@ b : v \in FieldVals(d), b \in BodiesOver(D \ {d})}

\* the bodies that carry at most MaxBodyFields of the given fields
Bodies(fields) ==
  UNION {BodiesOver(D) : D \in {E \in SUBSET fields : Cardinality(E) <= MaxBodyFields}}

\* the bodies of POST: a title (or none) and optional fields
CreateBodies ==
  Bodies(CreateFields \ {"title"}) \cup
  {("title" :> t) @@ b : t \in {"", " ", "a"}, b \in Bodies(CreateFields \ {"title"})}

\* the bodies of PUT
UpdateBodies == Bodies(UpdateFields \cup ExtraFields)

Has(body, f) == f \in DOMAIN body

-----------------------------------------------------------------------------
(* Pure parts of the code *)

\* String.prototype.trim on the titles of the model
trim(s) ==
  CASE s = " " -> ""
    [] s = " a " -> "a"
    [] s = " b " -> "b"
    [] OTHER -> s

\* mutant: the title is tested without trim()
TitleMissing_NoTrim(body) == ~Has(body, "title") \/ body["title"] = ""

\* index.ts createTask: !taskData.title || taskData.title.trim() === ''
TitleMissing(body) ==
  \/ ~Has(body, "title")
  \/ body["title"] = Null
  \/ body["title"] = ""
  \/ trim(body["title"]) = ""

\* (variant: the default only for a field the body does not carry)
OrDefault_OmittedOnly(body, f, dflt) == IF Has(body, f) THEN body[f] ELSE dflt

\* JavaScript's  x || dflt  on an optional string field of the body
OrDefault(body, f, dflt) ==
  IF Has(body, f) /\ body[f] # Null /\ body[f] # "" THEN body[f] ELSE dflt

\* the task object Database.createTask builds
NewTask(id, body, now) ==
  [id |-> id,
   title |-> body["title"],
   description |-> OrDefault(body, "description", ""),
   completed |-> FALSE,
   priority |-> OrDefault(body, "priority", "medium"),
   category |-> OrDefault(body, "category", "general"),
   createdAt |-> now,
   updatedAt |-> now]

\* sqlite3's binding of a JavaScript boolean to a column: 1 or 0
BindBool(b) == IF b THEN 1 ELSE 0

\* JavaScript's Boolean(row.completed)
Boolean(x) == x # 0

\* the parameters of the INSERT statement, as a row of the table
InsertRow(task) ==
  [id |-> task.id,
   title |-> task.title,
   description |-> task.description,
   completed |-> BindBool(task.completed),
   priority |-> task.priority,
   category |-> task.category,
   created_at |-> task.createdAt,
   updated_at |-> task.updatedAt]

\* the row -> Task mapping of getAllTasks and getTaskById
RowToTask(row) ==
  [id |-> row.id,
   title |-> row.title,
   description |-> row.description,
   completed |-> Boolean(row.completed),
   priority |-> row.priority,
   category |-> row.category,
   createdAt |-> row.created_at,
   updatedAt |-> row.updated_at]

\* what a promise of Task | null resolves to when no row is found
NullTask == [null |-> TRUE]

IsNull(t) == DOMAIN t = {"null"}

\* Database.getTaskById on a table: the task, or null
\* (variant: the SELECT has no WHERE clause and takes the first row)
getTaskById_AnyRow(tbl, id) ==
  IF DOMAIN tbl = {} THEN NullTask
  ELSE RowToTask(tbl[CHOOSE i \in DOMAIN tbl : \A j \in DOMAIN tbl : i <= j])

getTaskById(tbl, id) ==
  IF id \in DOMAIN tbl THEN RowToTask(tbl[id]) ELSE NullTask

\* mutant: an id generator that repeats itself
uuidv4_Repeating(n) == 1

\* the value uuidv4() returns on its n-th call: never one it returned before
uuidv4(n) == n

\* the value sqlite3 binds for a field of the body
Bind(f, v) == IF f = "completed" THEN BindBool(v) ELSE v

\* mutant: updated_at is not staged
SetClause_NoStamp(body, now) ==
  [c \in UpdateFields \cap DOMAIN body |-> Bind(c, body[c])]

\* mutant: createdAt of the body is staged as well
SetClause_CreatedAt(body, now) ==
  [c \in (UpdateFields \cap DOMAIN body) \cup {"updated_at"}
          \cup (IF Has(body, "createdAt") THEN {"created_at"} ELSE {}) |->
     IF c = "updated_at" THEN now
     ELSE IF c = "created_at" THEN body["createdAt"]
     ELSE Bind(c, body[c])]

\* Database.updateTask: the SET clause with its values, column -> value;
\* only the five fields it tests, and always updated_at
SetClause(body, now) ==
  [c \in (UpdateFields \cap DOMAIN body) \cup {"updated_at"} |->
     IF c = "updated_at" THEN now ELSE Bind(c, body[c])]

\* the schema's NOT NULL columns, checked on the rows an UPDATE changes
ViolatesNotNull(set) ==
  \E c \in DOMAIN set \cap {"title", "created_at", "updated_at"} : set[c] = Null

\* UPDATE tasks SET ... on one row
\* (variant: a write staged before the row's last one is dropped)
ApplySet_KeepNewer(row, set) ==
  IF TextLess(set["updated_at"], row.updated_at) THEN row
  ELSE [c \in DOMAIN row |-> IF c \in DOMAIN set THEN set[c] ELSE row[c]]

ApplySet(row, set) ==
  [c \in DOMAIN row |-> IF c \in DOMAIN set THEN set[c] ELSE row[c]]

\* sqlite running  INSERT INTO tasks (...) VALUES (...):  the table after it and
\* whether it failed (id is the PRIMARY KEY)
\* (variant: INSERT OR REPLACE)
RunInsert_OrReplace(tbl, row) ==
  [table |-> [i \in DOMAIN tbl \cup {row.id} |->
                IF i = row.id THEN row ELSE tbl[i]],
   err |-> FALSE]

RunInsert(tbl, row) ==
  IF row.id \in DOMAIN tbl
  THEN [table |-> tbl, err |-> TRUE]
  ELSE [table |-> (row.id :> row) @@ tbl, err |-> FALSE]

\* mutant: the UPDATE has no WHERE clause
RunUpdate_NoWhere(tbl, id, set) ==
  IF ViolatesNotNull(set) /\ DOMAIN tbl # {}
  THEN [table |-> tbl, err |-> TRUE, changes |-> 0]
  ELSE [table |-> [i \in DOMAIN tbl |-> ApplySet(tbl[i], set)], err |-> FALSE,
        changes |-> Cardinality(DOMAIN tbl)]

\* sqlite running  UPDATE tasks SET ... WHERE id = ?:  the table after it,
\* whether it failed, and this.changes
\* (variant: an UPDATE that stages no field is not run and counts as no row)
RunUpdate_SkipEmpty(tbl, id, set) ==
  IF id \notin DOMAIN tbl \/ DOMAIN set = {"updated_at"}
  THEN [table |-> tbl, err |-> FALSE, changes |-> 0]
  ELSE IF ViolatesNotNull(set)
  THEN [table |-> tbl, err |-> TRUE, changes |-> 0]
  ELSE [table |-> [tbl EXCEPT ![id] = ApplySet(@, set)], err |-> FALSE,
        changes |-> 1]

RunUpdate(tbl, id, set) ==
  IF id \notin DOMAIN tbl THEN [table |-> tbl, err |-> FALSE, changes |-> 0]
  ELSE IF ViolatesNotNull(set) THEN [table |-> tbl, err |-> TRUE, changes |-> 0]
  ELSE [table |-> [tbl EXCEPT ![id] = ApplySet(@, set)], err |-> FALSE, changes |-> 1]

\* mutant: the DELETE has no WHERE clause
RunDelete_NoWhere(tbl, id) ==
  [table |-> <<>>, changes |-> Cardinality(DOMAIN tbl)]

\* sqlite running  DELETE FROM tasks WHERE id = ?:  the table after it and
\* this.changes
RunDelete(tbl, id) ==
  IF id \in DOMAIN tbl
  THEN [table |-> [i \in DOMAIN tbl \ {id} |-> tbl[i]], changes |-> 1]
  ELSE [table |-> tbl, changes |-> 0]

\* the sequences over S without repetition that name every element of S
RECURSIVE Orderings(_)
Orderings(S) ==
  IF S = {} THEN {<<>>}
  ELSE UNION {{<<x>> \o o : o \in Orderings(S \ {x})} : x \in S}

\* mutant: ORDER BY created_at ASC
getAllTasks_Asc(tbl) ==
  {[i \in 1..Len(o) |-> RowToTask(tbl[o[i]])] :
     o \in {p \in Orderings(DOMAIN tbl) :
              \A i \in 1..(Len(p) - 1) :
                TextLeq(tbl[p[i]].created_at, tbl[p[i + 1]].created_at)}}

\* Database.getAllTasks on a table: SELECT * ORDER BY created_at DESC, mapped
\* to tasks; rows with the same created_at come in an order sqlite chooses
getAllTasks(tbl) ==
  {[i \in 1..Len(o) |-> RowToTask(tbl[o[i]])] :
     o \in {p \in Orderings(DOMAIN tbl) :
              \A i \in 1..(Len(p) - 1) :
                TextLeq(tbl[p[i + 1]].created_at, tbl[p[i]].created_at)}}

-----------------------------------------------------------------------------
(* State *)

Idle == [pc |-> "idle"]
NoResp == [op |-> "none", status |-> 0]
\* err of a sqlite callback: null, a constraint of the schema, or the store
\* itself failing (file unreadable, disk full, database locked)
NoError == "null"
Constraint == "SQLITE_CONSTRAINT"
IoError == "SQLITE_IOERR"

\* the useState initial values of TaskForm
InitialForm ==
  [title |-> "", description |-> "", priority |-> "medium", category |-> ""]

\* no handler of a component has run yet
NoEvent == [name |-> "none", id |-> NoSuchId]

\* nothing is rendered before the App is mounted
Unrendered ==
  /\ form = InitialForm
  /\ items = <<>>
  /\ event = NoEvent
  /\ ninput = 0

Init ==
  /\ store = <<>>
  /\ clock = StartClock
  /\ nextId = 1
  /\ inflight = [s \in Slots |-> Idle]
  /\ resp = NoResp
  /\ created = {}
  /\ deleted = {}
  /\ nreq = 0
  /\ sqlerr = NoError
  /\ tasks = <<>>
  /\ loading = TRUE
  /\ error = Null
  /\ mount = "unmounted"
  /\ Unrendered

\* a request can be received into slot s (the lowest free one)
Free(s) ==
  /\ nreq < MaxRequests
  /\ inflight[s] = Idle
  /\ \A t \in 1..(s - 1) : inflight[t] # Idle

\* the ids a client can name: those of the rows inserted so far, or a made-up one
Nameable == created \cup {NoSuchId}

\* one millisecond passes
Tick ==
  /\ clock < StartClock + MaxTicks
  /\ clock' = clock + 1
  /\ UNCHANGED <<store, nextId, inflight, resp, created, deleted, nreq, sqlerr>>

\* POST /api/tasks up to the point where the INSERT is handed to sqlite
BeginCreate(s, body) ==
  /\ Free(s)
  /\ nreq' = nreq + 1
  /\ IF TitleMissing(body)
     THEN /\ resp' = [op |-> "create", status |-> 400, body |-> body]
          /\ UNCHANGED <<nextId, inflight>>
     ELSE /\ nextId <= MaxIds
          /\ nextId' = nextId + 1
          /\ inflight' = [inflight EXCEPT ![s] =
               [pc |-> "insert", body |-> body,
                task |-> NewTask(uuidv4(nextId), body, toISOString(clock))]]
          /\ UNCHANGED resp
  /\ UNCHANGED <<store, clock, created, deleted, sqlerr>>

\* sqlite runs the INSERT and createTask's callback answers
ExecInsert(s) ==
  /\ inflight[s].pc = "insert"
  /\ LET r == inflight[s]
         ran == RunInsert(store, InsertRow(r.task))
     IN  IF ran.err
         THEN \* reject(err): the handler answers 500
              /\ resp' = [op |-> "create", status |-> 500]
              /\ sqlerr' = Constraint
              /\ UNCHANGED <<store, created>>
         ELSE \* resolve(task): the handler answers 201 with the task it built
              /\ store' = ran.table
              /\ created' = created \cup {r.task.id}
              /\ sqlerr' = NoError
              /\ resp' = [op |-> "create", status |-> 201, body |-> r.body,
                          task |-> r.task]
  /\ inflight' = [inflight EXCEPT ![s] = Idle]
  /\ UNCHANGED <<clock, nextId, deleted, nreq>>

\* PUT /api/tasks/:id up to the point where the UPDATE is handed to sqlite
BeginUpdate(s, id, body) ==
  /\ Free(s)
  /\ nreq' = nreq + 1
  /\ inflight' = [inflight EXCEPT ![s] =
       [pc |-> "update", id |-> id, body |-> body, now |-> toISOString(clock)]]
  /\ UNCHANGED <<store, clock, nextId, resp, created, deleted, sqlerr>>

\* sqlite runs the UPDATE and updateTask's callback looks at this.changes
ExecUpdate(s) ==
  /\ inflight[s].pc = "update"
  /\ LET r == inflight[s]
         ran == RunUpdate(store, r.id, SetClause(r.body, r.now))
     IN  IF ran.err
         THEN \* reject(err): the handler answers 500
              /\ resp' = [op |-> "update", status |-> 500, id |-> r.id]
              /\ inflight' = [inflight EXCEPT ![s] = Idle]
              /\ sqlerr' = Constraint
              /\ UNCHANGED store
         ELSE IF ran.changes = 0
         THEN \* resolve(null): the handler answers 404
              /\ resp' = [op |-> "update", status |-> 404, id |-> r.id]
              /\ inflight' = [inflight EXCEPT ![s] = Idle]
              /\ sqlerr' = NoError
              /\ store' = ran.table
         ELSE \* db.getTaskById(id) is called: its SELECT is handed to sqlite
              /\ store' = ran.table
              /\ inflight' = [inflight EXCEPT ![s].pc = "reread"]
              /\ sqlerr' = NoError
              /\ UNCHANGED resp
  /\ UNCHANGED <<clock, nextId, created, deleted, nreq>>

\* sqlite runs the SELECT of db.getTaskById(id) and the handler answers
ExecGetById(s) ==
  /\ inflight[s].pc = "reread"
  /\ LET r == inflight[s]
         task == getTaskById(store, r.id)
     IN  resp' = IF IsNull(task)
                 THEN [op |-> "update", status |-> 404, id |-> r.id]
                 ELSE [op |-> "update", status |-> 200, id |-> r.id,
                       body |-> r.body, now |-> r.now, task |-> task]
  /\ inflight' = [inflight EXCEPT ![s] = Idle]
  /\ sqlerr' = NoError
  /\ UNCHANGED <<store, clock, nextId, created, deleted, nreq>>

\* DELETE /api/tasks/:id: the handler hands the DELETE to sqlite and answers
\* on this.changes > 0; the step is the instant at which sqlite runs it
Delete(id) ==
  /\ nreq < MaxRequests
  /\ nreq' = nreq + 1
  /\ LET ran == RunDelete(store, id)
     IN  /\ store' = ran.table
         /\ deleted' = IF ran.changes > 0 THEN deleted \cup {id} ELSE deleted
         /\ resp' = [op |-> "delete", id |-> id,
                     status |-> IF ran.changes > 0 THEN 204 ELSE 404]
  /\ sqlerr' = NoError
  /\ UNCHANGED <<clock, nextId, inflight, created>>

\* GET /api/tasks: the handler hands SELECT ... ORDER BY created_at DESC to
\* sqlite and answers with the mapped rows
List ==
  /\ nreq < MaxRequests
  /\ nreq' = nreq + 1
  /\ \E rows \in getAllTasks(store) :
       resp' = [op |-> "list", status |-> 200, tasks |-> rows]
  /\ sqlerr' = NoError
  /\ UNCHANGED <<store, clock, nextId, inflight, created, deleted>>

\* the requests come from clients other than the App, which is not mounted
Detached == UNCHANGED <<cvars, uivars>>

Next ==
  \/ Tick /\ Detached
  \/ \E s \in Slots, body \in CreateBodies : BeginCreate(s, body) /\ Detached
  \/ \E s \in Slots : ExecInsert(s) /\ Detached
  \/ \E s \in Slots, id \in Nameable, body \in UpdateBodies :
       BeginUpdate(s, id, body) /\ Detached
  \/ \E s \in Slots : ExecUpdate(s) /\ Detached
  \/ \E s \in Slots : ExecGetById(s) /\ Detached
  \/ \E id \in Nameable : Delete(id) /\ Detached
  \/ List /\ Detached

Spec == Init /\ [][Next]_vars

-----------------------------------------------------------------------------
(* The same handlers when the environment misbehaves: a statement may fail in *)
(* the store for a reason of its own, and uuidv4 may return a value again.    *)

\* POST /api/tasks where uuidv4() returns a value it has returned before
BeginCreateRepeat(s, body, id) ==
  /\ Free(s)
  /\ ~TitleMissing(body)
  /\ id \in 1..(nextId - 1)
  /\ nreq' = nreq + 1
  /\ inflight' = [inflight EXCEPT ![s] =
       [pc |-> "insert", body |-> body,
        task |-> NewTask(id, body, toISOString(clock))]]
  /\ UNCHANGED <<store, clock, nextId, resp, created, deleted, sqlerr>>

\* the INSERT fails in sqlite: createTask rejects, the handler answers 500
FailInsert(s) ==
  /\ inflight[s].pc = "insert"
  /\ sqlerr' = IoError
  /\ resp' = [op |-> "create", status |-> 500]
  /\ inflight' = [inflight EXCEPT ![s] = Idle]
  /\ UNCHANGED <<store, clock, nextId, created, deleted, nreq>>

\* (variant: the failed UPDATE is handed to sqlite again)
FailUpdate_Retry(s) ==
  /\ inflight[s].pc = "update"
  /\ sqlerr' = IoError
  /\ UNCHANGED <<store, clock, nextId, inflight, resp, created, deleted, nreq>>

\* the UPDATE fails in sqlite: updateTask rejects, the handler answers 500
FailUpdate(s) ==
  /\ inflight[s].pc = "update"
  /\ sqlerr' = IoError
  /\ resp' = [op |-> "update", status |-> 500, id |-> inflight[s].id]
  /\ inflight' = [inflight EXCEPT ![s] = Idle]
  /\ UNCHANGED <<store, clock, nextId, created, deleted, nreq>>

\* the SELECT of the re-read fails: getTaskById rejects, so updateTask does,
\* and the handler answers 500
FailGetById(s) ==
  /\ inflight[s].pc = "reread"
  /\ sqlerr' = IoError
  /\ resp' = [op |-> "update", status |-> 500, id |-> inflight[s].id]
  /\ inflight' = [inflight EXCEPT ![s] = Idle]
  /\ UNCHANGED <<store, clock, nextId, created, deleted, nreq>>

\* the DELETE fails in sqlite: deleteTask rejects, the handler answers 500
FailDelete(id) ==
  /\ nreq < MaxRequests
  /\ nreq' = nreq + 1
  /\ sqlerr' = IoError
  /\ resp' = [op |-> "delete", id |-> id, status |-> 500]
  /\ UNCHANGED <<store, clock, nextId, inflight, created, deleted>>

\* the SELECT of the list fails: getAllTasks rejects, the handler answers 500
FailList ==
  /\ nreq < MaxRequests
  /\ nreq' = nreq + 1
  /\ sqlerr' = IoError
  /\ resp' = [op |-> "list", status |-> 500]
  /\ UNCHANGED <<store, clock, nextId, inflight, created, deleted>>

NextFaults ==
  \/ Next
  \/ \E s \in Slots, body \in CreateBodies, id \in 1..MaxIds :
       BeginCreateRepeat(s, body, id) /\ Detached
  \/ \E s \in Slots : FailInsert(s) /\ Detached
  \/ \E s \in Slots : FailUpdate(s) /\ Detached
  \/ \E s \in Slots : FailGetById(s) /\ Detached
  \/ \E id \in Nameable : FailDelete(id) /\ Detached
  \/ FailList /\ Detached

SpecFaults == Init /\ [][NextFaults]_vars

-----------------------------------------------------------------------------
(* The App component of the client (client/src/App.tsx) as the only client  *)
(* of the server, its handlers called one at a time: the next one once the  *)
(* request of the last has been answered.  tasksApi throws for every answer *)
(* that is not 2xx; a handler resumes the moment its answer is sent.  A     *)
(* statement may fail in the store.                                         *)

\* the table a previous run of the server left in ./tasks.db: one task
SeedTable ==
  LET row == InsertRow(NewTask(uuidv4(1), "title" :> "a", toISOString(StartClock - 1)))
  IN  row.id :> row

InitClient ==
  /\ store \in {<<>>, SeedTable}
  /\ clock = StartClock
  /\ nextId = Cardinality(DOMAIN store) + 1
  /\ inflight = [s \in Slots |-> Idle]
  /\ resp = NoResp
  /\ created = DOMAIN store
  /\ deleted = {}
  /\ nreq = 0
  /\ sqlerr = NoError
  /\ tasks = <<>>
  /\ loading = TRUE
  /\ error = Null
  /\ mount = "unmounted"
  /\ Unrendered

\* no handler is waiting for an answer
Quiet == mount \in {"loaded", "failed"} /\ \A s \in Slots : inflight[s] = Idle

\* what axios does with a status: 2xx resolves, anything else throws
Resolves(status) == status \in 200..299

\* setTasks(prev => [newTask, ...prev])
Prepend(list, task) == <<task>> \o list
\* setTasks(prev => prev.map(task => task.id === id ? updatedTask : task))
ReplaceById(list, id, updated) ==
  [i \in 1..Len(list) |-> IF list[i].id = id THEN updated ELSE list[i]]
\* setTasks(prev => prev.filter(task => task.id !== id))
RECURSIVE RemoveById(_, _)
RemoveById(list, id) ==
  IF list = <<>> THEN <<>>
  ELSE IF Head(list).id = id THEN RemoveById(Tail(list), id)
  ELSE <<Head(list)>> \o RemoveById(Tail(list), id)

\* the catch block of a handler
\* (variant: the catch block logs and leaves the error state alone)
Catch_Silent(message) ==
  UNCHANGED <<tasks, error>>

Catch(message) ==
  /\ error' = message
  /\ UNCHANGED tasks

\* useEffect on mount: loadTasks() sets loading and sends GET /api/tasks
Mount ==
  /\ mount = "unmounted"
  /\ mount' = "fetching"
  /\ loading' = TRUE
  /\ UNCHANGED <<store, clock, nextId, inflight, resp, created, deleted, nreq,
                 sqlerr, tasks, error>>

\* loadTasks after its await: the list is taken, or the catch block runs;
\* finally loading is reset
LoadTasksDone ==
  /\ mount = "fetching"
  /\ List \/ FailList
  /\ IF Resolves(resp'.status)
     THEN tasks' = resp'.tasks /\ error' = Null /\ mount' = "loaded"
     ELSE Catch("Failed to load tasks") /\ mount' = "failed"
  /\ loading' = FALSE

\* the App has rendered its form and list: loadTasks is over
Mounted == mount \in {"loaded", "failed"}

\* handleCreateTask up to its await; a 400 is answered at once
handleCreateTask(s, body) ==
  /\ Mounted
  /\ BeginCreate(s, body)
  /\ IF inflight'[s] = Idle
     THEN Catch("Failed to create task")
     ELSE UNCHANGED <<tasks, error>>
  /\ UNCHANGED <<loading, mount>>

\* handleCreateTask called while no other handler is waiting
HandleCreateTask(s, body) ==
  /\ Quiet
  /\ handleCreateTask(s, body)

\* handleCreateTask after its await
CreateTaskDone(s) ==
  /\ ExecInsert(s) \/ FailInsert(s)
  /\ IF Resolves(resp'.status)
     THEN tasks' = Prepend(tasks, resp'.task) /\ error' = Null
     ELSE Catch("Failed to create task")
  /\ UNCHANGED <<loading, mount>>

\* handleUpdateTask up to its await
handleUpdateTask(s, id, body) ==
  /\ Mounted
  /\ BeginUpdate(s, id, body)
  /\ UNCHANGED cvars

\* handleUpdateTask called while no other handler is waiting
HandleUpdateTask(s, id, body) ==
  /\ Quiet
  /\ handleUpdateTask(s, id, body)

\* (variant: the toggle always marks the task completed)
ToggleUpdates_AlwaysDone(task) == "completed" :> TRUE

\* the updates handleToggleComplete passes on: { completed: !task.completed }
ToggleUpdates(task) == "completed" :> ~task.completed

\* handleToggleComplete of the i-th task shown
handleToggleComplete(s, i) ==
  /\ i \in 1..Len(tasks)
  /\ handleUpdateTask(s, tasks[i].id, ToggleUpdates(tasks[i]))

\* handleToggleComplete called while no other handler is waiting
HandleToggleComplete(s, i) ==
  /\ Quiet
  /\ handleToggleComplete(s, i)

\* the UPDATE of handleUpdateTask's request runs; if the answer is sent now
\* (404 or 500) the catch block runs
UpdateTaskStatement(s) ==
  /\ ExecUpdate(s) \/ FailUpdate(s)
  /\ IF inflight'[s] = Idle
     THEN Catch("Failed to update task")
     ELSE UNCHANGED <<tasks, error>>
  /\ UNCHANGED <<loading, mount>>

\* handleUpdateTask after its await
UpdateTaskDone(s) ==
  /\ ExecGetById(s) \/ FailGetById(s)
  /\ IF Resolves(resp'.status)
     THEN tasks' = ReplaceById(tasks, inflight[s].id, resp'.task) /\ error' = Null
     ELSE Catch("Failed to update task")
  /\ UNCHANGED <<loading, mount>>

\* handleDeleteTask, its request and what follows its await
handleDeleteTask(id) ==
  /\ Mounted
  /\ Delete(id) \/ FailDelete(id)
  /\ IF Resolves(resp'.status)
     THEN tasks' = RemoveById(tasks, id) /\ error' = Null
     ELSE Catch("Failed to delete task")
  /\ UNCHANGED <<loading, mount>>

\* handleDeleteTask called while no other handler is waiting
HandleDeleteTask(id) ==
  /\ Quiet
  /\ handleDeleteTask(id)

\* the ids of the tasks the App shows
Shown == {tasks[i].id : i \in 1..Len(tasks)}

\* the handlers of the App are called directly: no component is rendered
Headless == UNCHANGED uivars

NextClient ==
  \/ Tick /\ UNCHANGED cvars /\ Headless
  \/ Mount /\ Headless
  \/ LoadTasksDone /\ Headless
  \/ \E s \in Slots, body \in CreateBodies : HandleCreateTask(s, body) /\ Headless
  \/ \E s \in Slots : CreateTaskDone(s) /\ Headless
  \/ \E s \in Slots, id \in Shown \cup {NoSuchId}, body \in UpdateBodies :
       HandleUpdateTask(s, id, body) /\ Headless
  \/ \E s \in Slots, i \in 1..MaxIds : HandleToggleComplete(s, i) /\ Headless
  \/ \E s \in Slots : UpdateTaskStatement(s) /\ Headless
  \/ \E s \in Slots : UpdateTaskDone(s) /\ Headless
  \/ \E id \in Shown \cup {NoSuchId} : HandleDeleteTask(id) /\ Headless

SpecClient == InitClient /\ [][NextClient]_vars

\* the App whose handlers are called while others are still waiting
NextOverlap ==
  \/ Tick /\ UNCHANGED cvars /\ Headless
  \/ Mount /\ Headless
  \/ LoadTasksDone /\ Headless
  \/ \E s \in Slots, body \in CreateBodies : handleCreateTask(s, body) /\ Headless
  \/ \E s \in Slots : CreateTaskDone(s) /\ Headless
  \/ \E s \in Slots, id \in Shown \cup {NoSuchId}, body \in UpdateBodies :
       handleUpdateTask(s, id, body) /\ Headless
  \/ \E s \in Slots, i \in 1..MaxIds : handleToggleComplete(s, i) /\ Headless
  \/ \E s \in Slots : UpdateTaskStatement(s) /\ Headless
  \/ \E s \in Slots : UpdateTaskDone(s) /\ Headless
  \/ \E id \in Shown \cup {NoSuchId} : handleDeleteTask(id) /\ Headless

SpecOverlap == InitClient /\ [][NextOverlap]_vars

------------------------------------------------------------------------------
(* The components: TaskForm, TaskList and TaskItem *)

\* what a user types into the title input of TaskForm
FormTitles == {"", " ", "a", " a "}
\* what a user types into the title input of a TaskItem in edit mode
EditTitles == {"", " ", " b "}
\* what a user types into a description textarea
Descriptions == {"", "d"}
\* what a user types into the category input
Categories == {"", "work"}

\* (variant: the title is tested as typed)
validateTitle_Untrimmed(f) == f.title # ""

\* TaskForm.validateTitle
validateTitle(f) == trim(f.title) # ""

\* TaskForm.prepareTaskData, as JSON.stringify sends it: a description of
\* undefined is left out of the body
prepareTaskData(f) ==
  LET data == [title |-> trim(f.title),
               priority |-> f.priority,
               category |-> IF trim(f.category) = "" THEN "general"
                            ELSE trim(f.category)]
  IN  IF trim(f.description) = "" THEN data
      ELSE ("description" :> trim(f.description)) @@ data

\* TaskForm.resetForm
resetForm == InitialForm

\* the useState initial values of a TaskItem mounted for this task
NewItem(task) ==
  [isEditing |-> FALSE,
   editTitle |-> task.title,
   editDescription |-> IF task.description = Null THEN "" ELSE task.description]

\* the task with this id in a list that has one
TaskOf(list, id) == list[CHOOSE i \in 1..Len(list) : list[i].id = id]

\* TaskList renders list where it rendered tasks: a TaskItem is keyed by the
\* id of its task inside the section (To Do, Completed) of its task, so it
\* keeps its state while its task stays in the section and is mounted anew
\* otherwise
Rendered(list) ==
  [id \in {list[i].id : i \in 1..Len(list)} |->
     IF /\ id \in DOMAIN items
        /\ TaskOf(tasks, id).completed = TaskOf(list, id).completed
     THEN items[id]
     ELSE NewItem(TaskOf(list, id))]

\* the render that follows a state update of the App
Rerender ==
  /\ items' = Rendered(tasks')
  /\ event' = [name |-> "response", id |-> NoSuchId]
  /\ UNCHANGED <<form, ninput>>

\* an input handler of TaskForm ran
FormInput(f) ==
  /\ Mounted
  /\ ninput < MaxInputs
  /\ ninput' = ninput + 1
  /\ form' = f
  /\ event' = [name |-> "input", id |-> NoSuchId]
  /\ UNCHANGED <<svars, cvars, items>>

\* onChange of the inputs of TaskForm
SetTitle(v) == FormInput([form EXCEPT !.title = v])
SetDescription(v) == FormInput([form EXCEPT !.description = v])
SetPriority(v) == FormInput([form EXCEPT !.priority = v])
SetCategory(v) == FormInput([form EXCEPT !.category = v])

\* TaskForm.handleSubmit; the title input is required, so the browser does not
\* fire the submit event while it is empty
handleSubmit ==
  /\ Mounted
  /\ form.title # ""
  /\ event' = [name |-> "submit", id |-> NoSuchId]
  /\ UNCHANGED ninput
  /\ IF validateTitle(form)
     THEN /\ \E s \in Slots : handleCreateTask(s, prepareTaskData(form))
          /\ form' = resetForm
     ELSE UNCHANGED <<svars, cvars, form>>
  /\ UNCHANGED items

\* a handler of the TaskItem of this task ran and left it in state item
ItemEvent(name, id, item) ==
  /\ Mounted
  /\ id \in DOMAIN items
  /\ items' = [items EXCEPT ![id] = item]
  /\ event' = [name |-> name, id |-> id]
  /\ UNCHANGED form

\* the Edit button of a TaskItem: setIsEditing(true)
StartEdit(id) ==
  /\ ItemEvent("edit", id, [items[id] EXCEPT !.isEditing = TRUE])
  /\ ~items[id].isEditing
  /\ UNCHANGED <<svars, cvars, ninput>>

\* onChange of the inputs of a TaskItem in edit mode
SetEditTitle(id, v) ==
  /\ ItemEvent("input", id, [items[id] EXCEPT !.editTitle = v])
  /\ items[id].isEditing
  /\ ninput < MaxInputs
  /\ ninput' = ninput + 1
  /\ UNCHANGED <<svars, cvars>>

SetEditDescription(id, v) ==
  /\ ItemEvent("input", id, [items[id] EXCEPT !.editDescription = v])
  /\ items[id].isEditing
  /\ ninput < MaxInputs
  /\ ninput' = ninput + 1
  /\ UNCHANGED <<svars, cvars>>

\* (variant: the edit title is tested as typed)
CanSave_Untrimmed(item) == item.editTitle # ""

\* the condition of TaskItem.handleSave: editTitle.trim() is truthy
CanSave(item) == trim(item.editTitle) # ""

\* the updates TaskItem.handleSave passes to onUpdateTask, as JSON.stringify
\* sends them
SaveUpdates(item) ==
  IF trim(item.editDescription) = "" THEN "title" :> trim(item.editTitle)
  ELSE ("title" :> trim(item.editTitle)) @@
       ("description" :> trim(item.editDescription))

\* TaskItem.handleSave
handleSave(id) ==
  /\ id \in DOMAIN items
  /\ items[id].isEditing
  /\ IF CanSave(items[id])
     THEN /\ ItemEvent("save", id, [items[id] EXCEPT !.isEditing = FALSE])
          /\ \E s \in Slots : handleUpdateTask(s, id, SaveUpdates(items[id]))
     ELSE /\ ItemEvent("save", id, items[id])
          /\ UNCHANGED <<svars, cvars>>
  /\ UNCHANGED ninput

\* TaskItem.handleCancel
handleCancel(id) ==
  /\ ItemEvent("cancel", id, NewItem(TaskOf(tasks, id)))
  /\ items[id].isEditing
  /\ UNCHANGED <<svars, cvars, ninput>>

\* the toggle button of a TaskItem that is not in edit mode
ClickToggle(id) ==
  /\ ItemEvent("toggle", id, items[id])
  /\ ~items[id].isEditing
  /\ \E s \in Slots, i \in 1..Len(tasks) :
       tasks[i].id = id /\ handleToggleComplete(s, i)
  /\ UNCHANGED ninput

\* the Delete button of a TaskItem that is not in edit mode; the request is
\* answered and the list rendered again
ClickDelete(id) ==
  /\ id \in DOMAIN items
  /\ ~items[id].isEditing
  /\ handleDeleteTask(id)
  /\ Rerender

\* the App as its user drives it: through TaskForm and the TaskItems
NextUI ==
  \/ Tick /\ UNCHANGED <<cvars, uivars>>
  \/ Mount /\ UNCHANGED uivars
  \/ LoadTasksDone /\ Rerender
  \/ \E v \in FormTitles : SetTitle(v)
  \/ \E v \in Descriptions : SetDescription(v)
  \/ \E v \in Priority : SetPriority(v)
  \/ \E v \in Categories : SetCategory(v)
  \/ handleSubmit
  \/ \E s \in Slots : CreateTaskDone(s) /\ Rerender
  \/ \E id \in Shown : StartEdit(id)
  \/ \E id \in Shown, v \in EditTitles : SetEditTitle(id, v)
  \/ \E id \in Shown, v \in Descriptions : SetEditDescription(id, v)
  \/ \E id \in Shown : handleSave(id)
  \/ \E id \in Shown : handleCancel(id)
  \/ \E id \in Shown : ClickToggle(id)
  \/ \E s \in Slots : UpdateTaskStatement(s) /\ Rerender
  \/ \E s \in Slots : UpdateTaskDone(s) /\ Rerender
  \/ \E id \in Shown : ClickDelete(id)

SpecUI == InitClient /\ [][NextUI]_vars

-----------------------------------------------------------------------------
(* Steps, as seen from outside the actions *)

\* POST answered 400 in this step
CreateRejectedStep ==
  /\ nreq' = nreq + 1
  /\ inflight' = inflight
  /\ resp'.op = "create"

\* the INSERT of the request in slot s ran in this step
InsertStep(s) == inflight[s].pc = "insert" /\ inflight'[s].pc = "idle"

\* the UPDATE of the request in slot s ran in this step
UpdateStep(s) == inflight[s].pc = "update" /\ inflight'[s].pc # "update"

\* the SELECT of db.getTaskById ran in this step for the request in slot s,
\* whose UPDATE had affected one row
ReadStep(s) == inflight[s].pc = "reread" /\ inflight'[s].pc = "idle"

\* DELETE /api/tasks/id was served in this step
DeleteStep(id) ==
  /\ nreq' = nreq + 1
  /\ inflight' = inflight
  /\ resp'.op = "delete"
  /\ resp'.id = id

\* GET /api/tasks was served in this step
ListStep ==
  /\ nreq' = nreq + 1
  /\ inflight' = inflight
  /\ resp'.op = "list"

\* sqlite ran a statement in this step: one of a request in flight, or the
\* one statement of a delete or of a list
StatementRan ==
  \/ \E s \in Slots : inflight[s].pc # "idle" /\ inflight'[s] # inflight[s]
  \/ nreq' = nreq + 1 /\ inflight' = inflight /\ resp'.op \in {"delete", "list"}

\* a statement ended with an error in this step
FailedStep == sqlerr' # NoError /\ (sqlerr' # sqlerr \/ StatementRan)

\* the handler a request in flight belongs to
OpOf(pc) == IF pc = "insert" THEN "create" ELSE "update"

\* a request was answered in this step
ReplyStep ==
  \/ \E s \in Slots : inflight[s].pc # "idle" /\ inflight'[s] = Idle
  \/ nreq' = nreq + 1 /\ inflight' = inflight

\* the App shows exactly the stored tasks, each once, with the stored values
Mirrors(list, tbl) ==
  /\ Len(list) = Cardinality(DOMAIN tbl)
  /\ {list[i].id : i \in 1..Len(list)} = DOMAIN tbl
  /\ \A i \in 1..Len(list) : list[i] = RowToTask(tbl[list[i].id])

\* the ids of a list of tasks, in its order
IdsOf(list) == [i \in 1..Len(list) |-> list[i].id]

\* a title that is missing, empty or made of white space only
Blank(body) == ~Has(body, "title") \/ body["title"] \in {"", " "}

\* the columns of a row other than updated_at
FrameColumns ==
  {"id", "title", "description", "completed", "priority", "category", "created_at"}

-----------------------------------------------------------------------------
(* Claims *)

\* C1: in every reachable state every stored task has a non-empty title.
\* (Refuted by the code: PUT accepts  {"title": ""}  without validation.)
C1_TitleNeverEmpty == \A id \in DOMAIN store : store[id].title # ""

\* C2: a create whose title is missing, empty or white space only is answered
\* 400 and the store is not called: the table is the same before and after,
\* and no INSERT is handed to sqlite for such a body.
C2_BlankCreateRejected ==
  [][/\ CreateRejectedStep =>
          /\ resp'.status = 400
          /\ store' = store
          /\ nextId' = nextId
     /\ \A s \in Slots : inflight'[s].pc = "insert" => ~Blank(inflight'[s].body)]_vars

C2_Witness ==
  /\ resp.op = "create"
  /\ resp.status = 400
  /\ Has(resp.body, "title")
  /\ resp.body["title"] = " "
  /\ DOMAIN store # {}

\* C3: every successful create returns a task whose id differs from the id of
\* every task created before it, deleted ones included, and whose createdAt
\* equals its updatedAt.
C3_FreshIdAndEqualStamps ==
  [][\A s \in Slots :
       InsertStep(s) /\ resp'.status = 201 =>
         /\ resp'.task.id \notin created
         /\ resp'.task.id \notin deleted
         /\ resp'.task.createdAt = resp'.task.updatedAt
         /\ store'[resp'.task.id].created_at = store'[resp'.task.id].updated_at]_vars

C3_Witness ==
  /\ resp.op = "create"
  /\ resp.status = 201
  /\ deleted # {}
  /\ resp.task.id \notin deleted

\* C4: from an empty store, after N successful creates and no delete, the list
\* has exactly N tasks, each adjacent pair with createdAt non-increasing.
C4_ListCountAndOrder ==
  [][ListStep /\ deleted = {} =>
       /\ resp'.status = 200
       /\ Len(resp'.tasks) = Cardinality(created)
       /\ {resp'.tasks[i].id : i \in 1..Len(resp'.tasks)} = created
       /\ \A i \in 1..(Len(resp'.tasks) - 1) :
            TextLeq(resp'.tasks[i + 1].createdAt, resp'.tasks[i].createdAt)]_vars

C4_Witness ==
  /\ resp.op = "list"
  /\ deleted = {}
  /\ Len(resp.tasks) = 2
  /\ resp.tasks[1].createdAt # resp.tasks[2].createdAt

\* C5: an update for an id that is not in the store is answered not-found
\* (null, 404) and leaves the table as it was, row for row.
C5_UpdateUnknownId ==
  [][\A s \in Slots :
       UpdateStep(s) /\ inflight[s].id \notin DOMAIN store =>
         /\ resp' = [op |-> "update", status |-> 404, id |-> inflight[s].id]
         /\ inflight'[s] = Idle
         /\ store' = store]_vars

C5_Witness ==
  /\ resp.op = "update"
  /\ resp.status = 404
  /\ resp.id = NoSuchId
  /\ DOMAIN store # {}

\* C6 as stated: an update that supplies only completed leaves title,
\* description, priority and category, sets completed, and leaves updatedAt
\* strictly later than it was.
C6_CompletedOnlyStrictlyLater ==
  [][\A s \in Slots :
       UpdateStep(s) /\ DOMAIN inflight[s].body = {"completed"}
                     /\ inflight[s].id \in DOMAIN store =>
         LET id == inflight[s].id
         IN  /\ \A c \in FrameColumns \ {"completed"} : store'[id][c] = store[id][c]
             /\ Boolean(store'[id].completed) = inflight[s].body["completed"]
             /\ TextLess(store[id].updated_at, store'[id].updated_at)]_vars

\* C6 amended: such an update leaves title, description, priority and category,
\* sets completed, and sets updatedAt to the instant the request read from the
\* clock when it was received; that instant is not earlier than the task's
\* createdAt.
C6_CompletedOnlyStamped ==
  [][\A s \in Slots :
       UpdateStep(s) /\ DOMAIN inflight[s].body = {"completed"}
                     /\ inflight[s].id \in DOMAIN store =>
         LET id == inflight[s].id
         IN  /\ \A c \in FrameColumns \ {"completed"} : store'[id][c] = store[id][c]
             /\ Boolean(store'[id].completed) = inflight[s].body["completed"]
             /\ \A j \in DOMAIN store \ {id} : store'[j] = store[j]
             /\ store'[id].updated_at = inflight[s].now
             /\ TextLeq(store'[id].created_at, store'[id].updated_at)]_vars

C6_Witness ==
  \E s \in Slots :
    /\ inflight[s].pc = "reread"
    /\ DOMAIN inflight[s].body = {"completed"}
    /\ inflight[s].id \in DOMAIN store
    /\ store[inflight[s].id].completed = 1
    /\ store[inflight[s].id].priority = "low"
    /\ TextLess(store[inflight[s].id].created_at, store[inflight[s].id].updated_at)

\* C7: deleting an existing id removes that row and no other and answers 204;
\* from then on getTaskById finds nothing, no list holds the id, and a later
\* delete of the id answers 404 and changes nothing.
C7_DeleteRemovesOneRow ==
  [][/\ \A id \in Nameable :
          DeleteStep(id) =>
            IF id \in DOMAIN store
            THEN /\ resp'.status = 204
                 /\ DOMAIN store' = DOMAIN store \ {id}
                 /\ \A j \in DOMAIN store' : store'[j] = store[j]
            ELSE /\ resp'.status = 404
                 /\ store' = store
     /\ \A id \in deleted' :
          /\ IsNull(getTaskById(store', id))
          /\ \A l \in getAllTasks(store') : \A i \in 1..Len(l) : l[i].id # id]_vars

C7_Witness ==
  /\ resp.op = "delete"
  /\ resp.status = 404
  /\ resp.id \in deleted

\* C8: no update, whatever its body carries, changes the id or the createdAt
\* of a stored row, and a field of the body outside the five has no effect:
\* a column other than updated_at changes only if the body carries it.
C8_IdAndCreatedAtImmutable ==
  [][/\ \A id \in DOMAIN store \cap DOMAIN store' :
          /\ store'[id].id = store[id].id
          /\ store'[id].created_at = store[id].created_at
     /\ \A id \in DOMAIN store' : store'[id].id = id
     /\ \A s \in Slots :
          UpdateStep(s) /\ inflight[s].id \in DOMAIN store =>
            \A c \in FrameColumns :
              store'[inflight[s].id][c] # store[inflight[s].id][c] =>
                c \in UpdateFields \cap DOMAIN inflight[s].body]_vars

C8_Witness ==
  \E s \in Slots :
    /\ inflight[s].pc = "reread"
    /\ Has(inflight[s].body, "createdAt")
    /\ inflight[s].id \in DOMAIN store
    /\ store[inflight[s].id].created_at # inflight[s].body["createdAt"]

\* C9: in every reachable state every stored task has updatedAt >= createdAt.
C9_UpdatedNotBeforeCreated ==
  \A id \in DOMAIN store : TextLeq(store[id].created_at, store[id].updated_at)

C9_Witness ==
  \E id \in DOMAIN store : TextLess(store[id].created_at, store[id].updated_at)

\* C10: in every reachable state every stored task's priority is one of low,
\* medium, high.  (Refuted by the code: neither POST nor PUT checks it.)
C10_PriorityInEnum == \A id \in DOMAIN store : store[id].priority \in Priority

\* the optional fields of a create and the default createTask gives each
OptionalFields == {"description", "priority", "category"}
DefaultOf(f) ==
  CASE f = "description" -> ""
    [] f = "priority" -> "medium"
    [] f = "category" -> "general"

\* C11 as stated: a successful create returns and persists a task in which
\* each omitted optional field has its default, each supplied optional field
\* has exactly the supplied value, and completed is false.
C11_DefaultsOrSupplied ==
  [][\A s \in Slots :
       InsertStep(s) /\ resp'.status = 201 =>
         LET body == inflight[s].body
             task == resp'.task
             row == store'[task.id]
         IN  /\ task.completed = FALSE
             /\ Boolean(row.completed) = FALSE
             /\ task.title = body["title"]
             /\ \A f \in OptionalFields :
                  /\ task[f] = IF Has(body, f) THEN body[f] ELSE DefaultOf(f)
                  /\ row[f] = task[f]]_vars

\* C11 amended: a successful create returns and persists a task in which each
\* optional field that is omitted or supplied as the empty string has its
\* default, each optional field supplied non-empty has exactly the supplied
\* value, and completed is false.
C11_DefaultsOrNonEmptySupplied ==
  [][\A s \in Slots :
       InsertStep(s) /\ resp'.status = 201 =>
         LET body == inflight[s].body
             task == resp'.task
             row == store'[task.id]
         IN  /\ task.completed = FALSE
             /\ Boolean(row.completed) = FALSE
             /\ task.title = body["title"]
             /\ \A f \in OptionalFields :
                  /\ task[f] = IF Has(body, f) /\ body[f] # ""
                               THEN body[f] ELSE DefaultOf(f)
                  /\ row[f] = task[f]]_vars

C11_Witness ==
  /\ resp.op = "create"
  /\ resp.status = 201
  /\ Has(resp.body, "category")
  /\ resp.body["category"] = ""
  /\ resp.task.id \in DOMAIN store
  /\ store[resp.task.id].category = "general"
  /\ store[resp.task.id].priority = "medium"

\* C12: updateTask answers not-found exactly when its UPDATE affected zero
\* rows: an UPDATE that affected no row is answered not-found, and a request
\* whose UPDATE affected one row is answered with the task, whatever ran
\* between the UPDATE and the re-read.
\* (Refuted by the code: a DELETE of the id that runs between the two makes
\* getTaskById resolve null, which the handler answers with 404.)
C12_NotFoundIffNoRowAffected ==
  [][\A s \in Slots :
       /\ UpdateStep(s) /\ inflight'[s] = Idle /\ resp'.status = 404 =>
            inflight[s].id \notin DOMAIN store
       /\ ReadStep(s) =>
            /\ resp'.status = 200
            /\ resp'.id = inflight[s].id
            /\ resp'.task.id = inflight[s].id]_vars

\* C13: when two updates of the same existing id that set the same field
\* overlap, sqlite applies their UPDATEs one at a time, each UPDATE leaves the
\* field at the value its request supplied (so the value stored once both
\* have run is that of the UPDATE applied last), a field of a row changes only
\* through such an UPDATE, and neither request is rejected: each goes on to
\* its re-read.
C13_LastWriteWins ==
  [][/\ \A s, t \in Slots : UpdateStep(s) /\ UpdateStep(t) => s = t
     /\ \A s \in Slots :
          LET id == inflight[s].id
              body == inflight[s].body
          IN  UpdateStep(s) /\ id \in DOMAIN store
                            /\ ~(Has(body, "title") /\ body["title"] = Null) =>
                /\ inflight'[s].pc = "reread"
                /\ resp' = resp
                /\ \A f \in UpdateFields \cap DOMAIN body :
                     store'[id][f] = Bind(f, body[f])
     /\ \A id \in DOMAIN store \cap DOMAIN store' :
          \A f \in UpdateFields :
            store'[id][f] # store[id][f] =>
              \E s \in Slots :
                /\ UpdateStep(s)
                /\ inflight[s].id = id
                /\ Has(inflight[s].body, f)
                /\ store'[id][f] = Bind(f, inflight[s].body[f])]_vars

\* both UPDATEs have run, the one taken later first, and the re-reads are
\* still to come
C13_Witness ==
  \E s, t \in Slots :
    /\ s # t
    /\ inflight[s].pc = "reread"
    /\ inflight[t].pc = "reread"
    /\ inflight[s].id = inflight[t].id
    /\ inflight[s].id \in DOMAIN store
    /\ Has(inflight[s].body, "priority")
    /\ Has(inflight[t].body, "priority")
    /\ inflight[s].body["priority"] # inflight[t].body["priority"]
    /\ TextLess(inflight[s].now, inflight[t].now)
    /\ store[inflight[s].id].priority = inflight[s].body["priority"]

\* a mutating request on id, as the one statement that writes: the DELETE of
\* deleteTask, or the UPDATE of updateTask (its re-read writes nothing)
Mutations(id) ==
  {[kind |-> "delete", id |-> id]} \cup
  {[kind |-> "update", id |-> id, body |-> body, now |-> toISOString(clock)] :
     body \in UpdateBodies}
ApplyMutation(tbl, m) ==
  IF m.kind = "delete" THEN RunDelete(tbl, m.id).table
  ELSE RunUpdate(tbl, m.id, SetClause(m.body, m.now)).table
\* the rows of a table without their timestamps
WithoutStamps(tbl) ==
  [i \in DOMAIN tbl |-> [c \in FrameColumns \ {"created_at"} |-> tbl[i][c]]]

\* C14: for any two mutating requests (update or delete) on distinct existing
\* ids, received when no other request is in flight, applying their writes to
\* the stored table in one order or in the other leaves the same rows with the
\* same field values other than timestamps.
C14_DistinctIdsCommute ==
  \A i, j \in DOMAIN store :
    i < j /\ (\A s \in Slots : inflight[s] = Idle) =>
      \A a \in Mutations(i), b \in Mutations(j) :
        WithoutStamps(ApplyMutation(ApplyMutation(store, a), b)) =
        WithoutStamps(ApplyMutation(ApplyMutation(store, b), a))

\* two rows that differ in a field an update can set
C14_Witness ==
  /\ Cardinality(DOMAIN store) = 2
  /\ \A s \in Slots : inflight[s] = Idle
  /\ \E i, j \in DOMAIN store : store[i].priority # store[j].priority

\* C16: an update of an existing id whose body carries none of the five
\* recognised fields (the empty body, or unknown fields only) still succeeds:
\* its UPDATE affects the row, sets updated_at to the request's timestamp and
\* changes no other column of any row, and its re-read of the row answers 200
\* with the task as stored, not 404.
C16_EmptyBodyUpdate ==
  [][\A s \in Slots :
       LET id == inflight[s].id
       IN  /\ UpdateStep(s) /\ id \in DOMAIN store
                            /\ DOMAIN inflight[s].body \cap UpdateFields = {} =>
                /\ inflight'[s].pc = "reread"
                /\ resp' = resp
                /\ DOMAIN store' = DOMAIN store
                /\ store'[id].updated_at = inflight[s].now
                /\ \A c \in FrameColumns : store'[id][c] = store[id][c]
                /\ \A j \in DOMAIN store \ {id} : store'[j] = store[j]
           /\ ReadStep(s) /\ id \in DOMAIN store
                          /\ DOMAIN inflight[s].body \cap UpdateFields = {} =>
                /\ resp'.status = 200
                /\ resp'.task = RowToTask(store[id])
                /\ store' = store]_vars

\* the UPDATE of an empty-bodied request has run and refreshed updated_at
C16_Witness ==
  \E s \in Slots :
    /\ inflight[s].pc = "reread"
    /\ inflight[s].body = <<>>
    /\ inflight[s].id \in DOMAIN store
    /\ store[inflight[s].id].updated_at = inflight[s].now
    /\ TextLess(store[inflight[s].id].created_at, inflight[s].now)

\* C18 as stated: the task returned by a successful updateTask carries, for
\* every recognised field the request supplied, exactly the supplied value,
\* and the updatedAt this request staged, whatever other updates of the same
\* id ran between this request's UPDATE and its re-read.
C18_ReturnsOwnWrite ==
  [][\A s \in Slots :
       ReadStep(s) /\ resp'.status = 200 =>
         /\ \A f \in UpdateFields \cap DOMAIN inflight[s].body :
              resp'.task[f] = inflight[s].body[f]
         /\ resp'.task.updatedAt = inflight[s].now]_vars

\* C18 amended: the task returned by a successful updateTask is the row as it
\* is stored when the re-read runs.  Right after the request's own UPDATE the
\* row carries every recognised field supplied and the updatedAt staged; until
\* the re-read the row changes only through the UPDATE of another request on
\* the same id, whose values the returned task then carries.
C18_ReturnsStoredRow ==
  [][\A s \in Slots :
       LET id == inflight[s].id
       IN  /\ ReadStep(s) /\ resp'.status = 200 =>
                /\ resp'.task = RowToTask(store[id])
                /\ store' = store
           /\ UpdateStep(s) /\ inflight'[s].pc = "reread" =>
                /\ \A f \in UpdateFields \cap DOMAIN inflight[s].body :
                     RowToTask(store'[id])[f] = inflight[s].body[f]
                /\ RowToTask(store'[id]).updatedAt = inflight[s].now
           /\ inflight[s].pc = "reread" /\ inflight'[s] = inflight[s]
                /\ id \in DOMAIN store \cap DOMAIN store'
                /\ store'[id] # store[id] =>
                \E t \in Slots \ {s} : UpdateStep(t) /\ inflight[t].id = id]_vars

\* an update was answered 200 with a task that carries another request's
\* value for the field it supplied, and another request's updatedAt
C18_Witness ==
  /\ resp.op = "update"
  /\ resp.status = 200
  /\ Has(resp.body, "priority")
  /\ resp.task.priority # resp.body["priority"]
  /\ resp.task.updatedAt # resp.now

\* C19: the updated_at of a row never decreases, in any sequence or
\* interleaving of updates of its id.
\* (Refuted by the code: each request takes its timestamp when it is received,
\* and an UPDATE received earlier may run after one received later.)
C19_UpdatedAtNeverDecreases ==
  [][\A id \in DOMAIN store \cap DOMAIN store' :
       TextLeq(store[id].updated_at, store'[id].updated_at)]_vars

\* C15: when a statement fails in the store during any of the four handlers,
\* the handler answers 500, the request is over and the table is as it was;
\* no statement is run a second time: a request in flight only moves on, from
\* its INSERT to the end, from its UPDATE to its re-read or to the end, from
\* its re-read to the end.
C15_FailureAnswers500Once ==
  [][/\ FailedStep =>
          /\ resp'.status = 500
          /\ store' = store
          /\ \/ \E s \in Slots :
                  /\ inflight[s].pc # "idle"
                  /\ inflight' = [inflight EXCEPT ![s] = Idle]
                  /\ resp'.op = OpOf(inflight[s].pc)
                  /\ nreq' = nreq
             \/ /\ nreq' = nreq + 1
                /\ inflight' = inflight
                /\ resp'.op \in {"delete", "list"}
     /\ \A s \in Slots :
          inflight[s].pc # "idle" /\ inflight'[s] # inflight[s] =>
            \/ inflight'[s] = Idle
            \/ /\ inflight[s].pc = "update"
               /\ inflight'[s] = [inflight[s] EXCEPT !.pc = "reread"]]_vars

\* the re-read of an update failed after its UPDATE had changed the row, and
\* another request is still in flight
C15_Witness ==
  /\ sqlerr = IoError
  /\ resp.op = "update"
  /\ resp.status = 500
  /\ resp.id \in DOMAIN store
  /\ TextLess(store[resp.id].created_at, store[resp.id].updated_at)
  /\ \E s \in Slots : inflight[s].pc # "idle"

\* C17: if the id generated for a create is the id of a stored row, the INSERT
\* fails and the handler answers 500; the stored row keeps every field value
\* and the table has as many rows as before.
C17_CollidingInsertFails ==
  [][\A s \in Slots :
       InsertStep(s) /\ inflight[s].task.id \in DOMAIN store =>
         /\ resp' = [op |-> "create", status |-> 500]
         /\ sqlerr' # NoError
         /\ store'[inflight[s].task.id] = store[inflight[s].task.id]
         /\ Cardinality(DOMAIN store') = Cardinality(DOMAIN store)
         /\ store' = store]_vars

\* the INSERT of a create was refused by the PRIMARY KEY and the row that was
\* there is still there
C17_Witness ==
  /\ sqlerr = Constraint
  /\ resp = [op |-> "create", status |-> 500]
  /\ DOMAIN store # {}

\* C20: for the App as the only client, its handlers called one at a time:
\* once the initial load has succeeded, whenever no handler is waiting for an
\* answer the tasks list holds exactly the tasks stored on the server, with
\* the same field values; and a handler whose request fails leaves the tasks
\* list as it was.
\* (Refuted by the code: when the re-read of an update fails after its UPDATE
\* has run, the server answers 500 although the row has changed.)
C20_ClientMirrorsServer ==
  [][/\ mount' = "loaded" /\ (\A s \in Slots : inflight'[s] = Idle) =>
          Mirrors(tasks', store')
     /\ ReplyStep /\ ~Resolves(resp'.status) => tasks' = tasks]_vars

\* C21: once the initial load has succeeded, whenever no request is in flight
\* the tasks list of the App is in an order the server's list could return
\* (createdAt descending), also after create requests that were in flight at
\* once and were answered in another order than they were received.
\* (Refuted by the code: handleCreateTask prepends on arrival, whatever the
\* createdAt of the task.)
C21_ClientOrderIsServerOrder ==
  mount = "loaded" /\ (\A s \in Slots : inflight[s] = Idle) =>
    IdsOf(tasks) \in {IdsOf(l) : l \in getAllTasks(store)}

\* one toggle of the task with this id, from the click to the response applied:
\* handleToggleComplete on the task the App shows, the UPDATE and the re-read
\* of updateTask at the instant now, the map of handleUpdateTask
ToggleOnce(app, id, now) ==
  LET task == app.tasks[CHOOSE i \in 1..Len(app.tasks) : app.tasks[i].id = id]
      ran == RunUpdate(app.store, id, SetClause(ToggleUpdates(task), now))
  IN  [tasks |-> ReplaceById(app.tasks, id, getTaskById(ran.table, id)),
       store |-> ran.table]

\* the instants a request received from now on can read from the clock
Instants == {toISOString(t) : t \in clock..(StartClock + MaxTicks)}

\* C23: when the App shows the stored tasks and no handler is waiting,
\* toggling a task twice, the second toggle after the response of the first
\* has been applied, flips completed and flips it back: server and client
\* have the task's original completed value and every other field of every
\* task as it was, except the updatedAt of the toggled task.
C23_ToggleTwiceRestores ==
  Quiet /\ mount = "loaded" /\ Mirrors(tasks, store) =>
    \A i \in 1..Len(tasks) :
      \A n1, n2 \in Instants :
        TextLeq(n1, n2) =>
          LET id == tasks[i].id
              once == ToggleOnce([tasks |-> tasks, store |-> store], id, n1)
              twice == ToggleOnce(once, id, n2)
          IN  /\ once.tasks[i].completed = ~tasks[i].completed
              /\ Boolean(once.store[id].completed) = ~tasks[i].completed
              /\ twice.store = [store EXCEPT ![id].updated_at = n2]
              /\ twice.tasks = [tasks EXCEPT ![i].updatedAt = n2]

\* the App has toggled the stored task and toggled it back
C23_Witness ==
  /\ Quiet
  /\ mount = "loaded"
  /\ Mirrors(tasks, store)
  /\ resp.op = "update"
  /\ resp.status = 200
  /\ resp.body = ToggleUpdates([completed |-> TRUE])
  /\ nreq = 3
  /\ Len(tasks) = 1
  /\ tasks[1].completed = FALSE
  /\ TextLess(tasks[1].createdAt, tasks[1].updatedAt)

\* the message each handler of the App sets in its catch block
FailureMessage(op) ==
  CASE op = "list" -> "Failed to load tasks"
    [] op = "create" -> "Failed to create task"
    [] op = "update" -> "Failed to update task"
    [] op = "delete" -> "Failed to delete task"

\* C24: the error state of the App is the outcome of the operation that
\* completed last: the step that answers a request of the App sets error to
\* null when the answer is a success and to the failure message of that
\* handler when it is not, no other step changes error, and loading is false
\* once loadTasks has completed, whether it succeeded or failed.
C24_ErrorIsLastOutcome ==
  [][/\ ReplyStep =>
          /\ error' = IF Resolves(resp'.status) THEN Null
                      ELSE FailureMessage(resp'.op)
          /\ resp'.op = "list" => loading' = FALSE
     /\ ~ReplyStep => error' = error
     /\ mount' \in {"loaded", "failed"} => loading' = FALSE]_vars

\* loadTasks failed, and a later create succeeded and cleared its message
C24_Witness ==
  /\ mount = "failed"
  /\ loading = FALSE
  /\ resp.op = "create"
  /\ resp.status = 201
  /\ error = Null

\* a request was handed to the store from slot s in this step
SentStep(s) == inflight[s] = Idle /\ inflight'[s] # Idle

\* C22: driven through its components, the client sends no title that is blank
\* or untrimmed.  No POST is answered 400; a POST is sent only by a submit of
\* TaskForm whose trimmed title is not empty, carries that trimmed title, and
\* the form is reset; a PUT with a title is sent only by a save of the
\* TaskItem of that task whose trimmed edit title is not empty, carries that
\* trimmed title, and the item leaves edit mode; a submit with a blank title
\* sends nothing and leaves the form as it is, and a save with a blank edit
\* title sends nothing and leaves the item as it is, in edit mode.
C22_NoBlankTitleSent ==
  [][/\ ~CreateRejectedStep
     /\ \A s \in Slots :
          SentStep(s) /\ inflight'[s].pc = "insert" =>
            /\ event'.name = "submit"
            /\ trim(form.title) # ""
            /\ Has(inflight'[s].body, "title")
            /\ inflight'[s].body["title"] = trim(form.title)
            /\ form' = InitialForm
     /\ \A s \in Slots :
          SentStep(s) /\ inflight'[s].pc = "update"
                      /\ Has(inflight'[s].body, "title") =>
            /\ event' = [name |-> "save", id |-> inflight'[s].id]
            /\ trim(items[inflight'[s].id].editTitle) # ""
            /\ inflight'[s].body["title"] = trim(items[inflight'[s].id].editTitle)
            /\ ~items'[inflight'[s].id].isEditing
     /\ event' # event /\ event'.name = "submit" /\ trim(form.title) = "" =>
          /\ svars' = svars
          /\ form' = form
     /\ event' # event /\ event'.name = "save"
                        /\ trim(items[event'.id].editTitle) = "" =>
          /\ svars' = svars
          /\ items' = items
          /\ items'[event'.id].isEditing]_vars

\* a title typed with spaces around it was saved trimmed, and then a submit
\* with a blank title left the form as it was
C22_Witness ==
  /\ event.name = "submit"
  /\ form.title = " "
  /\ \E id \in DOMAIN items \cap DOMAIN store :
       /\ items[id].editTitle = " b "
       /\ ~items[id].isEditing
       /\ store[id].title = "b"

====
